---------------------------- MODULE Spec2Model ----------------------------
(***************************************************************************)
(* mlpack::tree::InformationGain (information_gain.hpp).                   *)
(*                                                                         *)
(* Evaluate<UseWeights>(labels, numClasses, weights) and Range(numClasses) *)
(* are modelled on IEEE-754 binary64 values, the C++ type double the code  *)
(* computes with: every +, /, * and log2 below rounds to 53 significant    *)
(* bits, round-to-nearest-even.  TLC's integers are 32 bits wide, so a     *)
(* significand is kept as a sequence of 13-bit limbs.                      *)
(***************************************************************************)
EXTENDS Integers, Sequences, FiniteSets, TLC

(***************************************************************************)
(* Unsigned big integers: little-endian sequences of limbs in 0..Base-1,   *)
(* no leading zero limb; <<>> is zero.                                     *)
(***************************************************************************)
LimbBits == 13

Base == 2^LimbBits

Max(a, b) == IF a < b THEN b ELSE a

Min(a, b) == IF a < b THEN a ELSE b

Limb(a, i) == IF i <= Len(a) THEN a[i] ELSE 0

RECURSIVE Trim(_)
Trim(a) == IF a = <<>> \/ a[Len(a)] # 0 THEN a ELSE Trim(SubSeq(a, 1, Len(a) - 1))

RECURSIVE Carry(_, _, _)
Carry(cols, i, c) ==
  IF i > Len(cols)
  THEN IF c = 0 THEN <<>> ELSE <<c % Base>> \o Carry(cols, i, c \div Base)
  ELSE LET v == cols[i] + c IN <<v % Base>> \o Carry(cols, i + 1, v \div Base)

BNorm(cols) == Trim(Carry(cols, 1, 0))

BFromNat(n) == BNorm(<<n>>)

BAdd(a, b) == BNorm([i \in 1..Max(Len(a), Len(b)) |-> Limb(a, i) + Limb(b, i)])

RECURSIVE Borrow(_, _, _, _)
Borrow(a, b, i, br) ==
  IF i > Len(a) THEN <<>>
  ELSE LET v == a[i] - Limb(b, i) - br
       IN  IF v < 0 THEN <<v + Base>> \o Borrow(a, b, i + 1, 1)
                    ELSE <<v>> \o Borrow(a, b, i + 1, 0)

\* a - b for a >= b
BSub(a, b) == Trim(Borrow(a, b, 1, 0))

RECURSIVE ColSum(_, _, _, _)
ColSum(a, b, k, i) ==
  IF i > Len(a) THEN 0
  ELSE (IF k - i >= 0 /\ k - i < Len(b) THEN a[i] * b[k + 1 - i] ELSE 0)
       + ColSum(a, b, k, i + 1)

BMul(a, b) == BNorm([k \in 1..(Len(a) + Len(b)) |-> ColSum(a, b, k, 1)])

RECURSIVE CmpFrom(_, _, _)
CmpFrom(a, b, i) ==
  IF i = 0 THEN 0
  ELSE IF a[i] # b[i] THEN (IF a[i] < b[i] THEN -1 ELSE 1)
  ELSE CmpFrom(a, b, i - 1)

\* -1, 0, 1 as a < b, a = b, a > b
BCmp(a, b) ==
  IF Len(a) # Len(b) THEN (IF Len(a) < Len(b) THEN -1 ELSE 1)
  ELSE CmpFrom(a, b, Len(a))

\* a * 2^s
BShl(a, s) ==
  IF a = <<>> THEN <<>>
  ELSE [i \in 1..(s \div LimbBits) |-> 0]
       \o BNorm([i \in 1..Len(a) |-> a[i] * 2^(s % LimbBits)])

\* floor(a / 2^s)
BShr(a, s) ==
  LET q == s \div LimbBits
      r == s % LimbBits
      n == Len(a) - q
  IN  IF n <= 0 THEN <<>>
      ELSE Trim([i \in 1..n |-> (a[i + q] \div 2^r)
                               + (Limb(a, i + q + 1) % 2^r) * 2^(LimbBits - r)])

\* a mod 2^s = 0
BLowZero(a, s) ==
  /\ \A i \in 1..(s \div LimbBits) : Limb(a, i) = 0
  /\ Limb(a, s \div LimbBits + 1) % 2^(s % LimbBits) = 0

\* bit k of a, bit 0 the least significant
BBit(a, k) == (Limb(a, k \div LimbBits + 1) \div 2^(k % LimbBits)) % 2

RECURSIVE Bits(_)
Bits(n) == IF n = 0 THEN 0 ELSE 1 + Bits(n \div 2)

BBitLen(a) == IF a = <<>> THEN 0 ELSE LimbBits * (Len(a) - 1) + Bits(a[Len(a)])

\* 2a + bit
BDouble(a, bit) ==
  BNorm([i \in 1..Max(Len(a), 1) |-> 2 * Limb(a, i) + (IF i = 1 THEN bit ELSE 0)])

\* bits, most significant first, to a big integer
RECURSIVE LimbOf(_, _, _)
LimbOf(bits, lo, i) ==
  IF i = LimbBits \/ lo + i > Len(bits) THEN 0
  ELSE bits[Len(bits) + 1 - (lo + i)] * 2^i + LimbOf(bits, lo, i + 1)

BFromBits(bits) ==
  Trim([j \in 1..((Len(bits) + LimbBits - 1) \div LimbBits) |->
          LimbOf(bits, (j - 1) * LimbBits + 1, 0)])

\* the first k bits of r / d after the binary point, for r < d, by shift and
\* subtract, and whether a remainder is left; q holds the bits so far
RECURSIVE DivLoop(_, _, _, _)
DivLoop(r, d, k, q) ==
  IF Len(q) = k THEN [quot |-> BFromBits(q), inexact |-> r # <<>>]
  ELSE LET r2 == BDouble(r, 0)
       IN  IF BCmp(r2, d) >= 0
           THEN DivLoop(BSub(r2, d), d, k, Append(q, 1))
           ELSE DivLoop(r2, d, k, Append(q, 0))

(***************************************************************************)
(* binary64.  A finite double is [k |-> "num", neg, m, e] of value         *)
(* (-1)^neg * m * 2^e: a normal one has m of exactly Precision bits and    *)
(* MinExp <= e <= MaxExp, a subnormal one has a shorter m and e = MinExp,  *)
(* Zero has m = 0.  k is "inf" for an infinity and "nan" for a NaN.  The   *)
(* sign of a zero is not kept: Evaluate only compares zeros and adds them. *)
(***************************************************************************)
Precision == 53

ExpBits == 11

\* the exponent of the last bit of the largest and of the smallest double
MaxExp == 2^(ExpBits - 1) - 1 - (Precision - 1)

MinExp == 2 - 2^(ExpBits - 1) - (Precision - 1)

Zero == [k |-> "num", neg |-> FALSE, m |-> <<>>, e |-> 0]

NaN == [k |-> "nan", neg |-> FALSE, m |-> <<>>, e |-> 0]

Inf(neg) == [k |-> "inf", neg |-> neg, m |-> <<>>, e |-> 0]

IsNaN(x) == x.k = "nan"

IsInf(x) == x.k = "inf"

IsFinite(x) == x.k = "num"

IsZero(x) == x.k = "num" /\ x.m = <<>>

\* m * 2^e for m of at most Precision bits and e >= MinExp: an infinity
\* when it is beyond the largest double
Pack(neg, m, e) ==
  IF m = <<>> THEN Zero
  ELSE IF e > MaxExp THEN Inf(neg)
  ELSE [k |-> "num", neg |-> neg, m |-> m, e |-> e]

\* M * 2^e (M > 0, plus a nonzero part below M's last bit when sticky)
\* rounded to nearest, ties to even; s is the number of low bits of M that
\* the result drops, more than BBitLen(M) - Precision in the subnormal range
RoundNearestEven(neg, M, e, sticky) ==
  LET s == Max(BBitLen(M) - Precision, MinExp - e)
  IN  IF s <= 0
      THEN Pack(neg, BShl(M, -s), e + s)
      ELSE LET q    == BShr(M, s)
               half == BBit(M, s - 1) = 1
               rest == sticky \/ ~BLowZero(M, s - 1)
               up   == half /\ (rest \/ BBit(q, 0) = 1)
               q2   == IF up THEN BAdd(q, <<1>>) ELSE q
           IN  IF BBitLen(q2) > Precision
               THEN Pack(neg, BShr(q2, 1), e + s + 1)
               ELSE Pack(neg, q2, e + s)

\* the significand of a finite nonzero x shifted up to Precision bits, and
\* the exponent that goes with it
Significand(x) == BShl(x.m, Precision - BBitLen(x.m))

Exponent(x) == x.e - (Precision - BBitLen(x.m))

\* (double) n, for an unsigned integer n
FromNat(n) == IF n = 0 THEN Zero ELSE RoundNearestEven(FALSE, BFromNat(n), 0, FALSE)

One == FromNat(1)

\* the exponent of the bit above the first bit of a finite nonzero x
Top(x) == x.e + BBitLen(x.m)

\* x + y for x and y of the same sign (the only sums Evaluate forms: the
\* weights are non-negative, the terms f * log2(f) are not positive); an
\* operand that lies wholly more than two bits below the other's last bit
\* only makes the sum inexact
FAdd(x, y) ==
  IF IsNaN(x) \/ IsNaN(y) THEN NaN
  ELSE IF IsInf(x) THEN x
  ELSE IF IsInf(y) THEN y
  ELSE IF IsZero(x) THEN y
  ELSE IF IsZero(y) THEN x
  ELSE IF Top(y) < x.e - 2 THEN RoundNearestEven(x.neg, BShl(x.m, 2), x.e - 2, TRUE)
  ELSE IF Top(x) < y.e - 2 THEN RoundNearestEven(x.neg, BShl(y.m, 2), y.e - 2, TRUE)
  ELSE LET em == Min(x.e, y.e)
       IN  RoundNearestEven(x.neg,
                            BAdd(BShl(x.m, x.e - em), BShl(y.m, y.e - em)),
                            em, FALSE)

FMul(x, y) ==
  IF IsNaN(x) \/ IsNaN(y) THEN NaN
  ELSE IF IsInf(x) \/ IsInf(y)
       THEN IF IsZero(x) \/ IsZero(y) THEN NaN ELSE Inf(x.neg # y.neg)
  ELSE IF IsZero(x) \/ IsZero(y) THEN Zero
  ELSE RoundNearestEven(x.neg # y.neg, BMul(x.m, y.m), x.e + y.e, FALSE)

FDiv(x, y) ==
  IF IsNaN(x) \/ IsNaN(y) THEN NaN
  ELSE IF IsInf(x) THEN (IF IsInf(y) THEN NaN ELSE Inf(x.neg # y.neg))
  ELSE IF IsInf(y) THEN Zero
  ELSE IF IsZero(y) THEN (IF IsZero(x) THEN NaN ELSE Inf(x.neg # y.neg))
  ELSE IF IsZero(x) THEN Zero
  ELSE LET X  == Significand(x)
           Y  == Significand(y)
           ge == BCmp(X, Y) >= 0
           d  == DivLoop(IF ge THEN BSub(X, Y) ELSE X, Y, Precision + 4,
                         <<IF ge THEN 1 ELSE 0>>)
       IN  RoundNearestEven(x.neg # y.neg, d.quot,
                            Exponent(x) - Exponent(y) - (Precision + 3), d.inexact)

\* |a| < |b| for finite nonzero a and b
MagLess(a, b) ==
  IF Top(a) # Top(b) THEN Top(a) < Top(b)
  ELSE BCmp(Significand(a), Significand(b)) < 0

\* x < y; false when either is a NaN
FLess(x, y) ==
  IF IsNaN(x) \/ IsNaN(y) THEN FALSE
  ELSE IF IsInf(x) THEN x.neg /\ ~(IsInf(y) /\ y.neg)
  ELSE IF IsInf(y) THEN ~y.neg
  ELSE IF IsZero(x) THEN ~IsZero(y) /\ ~y.neg
  ELSE IF IsZero(y) THEN x.neg
  ELSE IF x.neg # y.neg THEN x.neg
  ELSE IF x.neg THEN MagLess(y, x) ELSE MagLess(x, y)

\* x <= y; false when either is a NaN
FLeq(x, y) == ~IsNaN(x) /\ ~IsNaN(y) /\ ~FLess(y, x)

\* -x
FNeg(x) == IF IsNaN(x) \/ IsZero(x) THEN x ELSE [x EXCEPT !.neg = ~x.neg]

(***************************************************************************)
(* std::log2, correctly rounded.  The fraction of log2 of the significand  *)
(* y in [1, 2) comes one bit per squaring: y^2 >= 2 gives a 1 and halves   *)
(* y^2.  y is kept to LogWork fraction bits, LogBits bits are produced.    *)
(***************************************************************************)
LogWork == 6 * LimbBits

LogBits == 64

RECURSIVE LogLoop(_, _)
LogLoop(Y, T) ==
  IF Len(T) = LogBits THEN BFromBits(T)
  ELSE LET Y2 == BShr(BMul(Y, Y), LogWork)
       IN  IF BBitLen(Y2) > LogWork + 1
           THEN LogLoop(BShr(Y2, 1), Append(T, 1))
           ELSE LogLoop(Y2, Append(T, 0))

\* log2(x): NaN for a NaN or a negative x, -inf for 0
FLog2(x) ==
  IF IsNaN(x) THEN NaN
  ELSE IF IsZero(x) THEN Inf(TRUE)
  ELSE IF x.neg THEN NaN
  ELSE IF IsInf(x) THEN x
  ELSE LET X == Significand(x)
           E == Exponent(x) + Precision - 1
       IN  IF BLowZero(X, Precision - 1)     \* a power of two: exact
           THEN IF E = 0 THEN Zero
                ELSE RoundNearestEven(E < 0, BFromNat(IF E < 0 THEN -E ELSE E),
                                      0, FALSE)
           ELSE LET T == LogLoop(BShl(X, LogWork - (Precision - 1)), <<>>)
                IN  IF E >= 0
                    THEN RoundNearestEven(FALSE,
                           BAdd(BShl(BFromNat(E), LogBits), T), -LogBits, TRUE)
                    ELSE RoundNearestEven(TRUE,
                           BSub(BSub(BShl(BFromNat(-E), LogBits), T), <<1>>),
                           -LogBits, TRUE)

(***************************************************************************)
(* Bounds of the model and the inputs the callers pass.                    *)
(***************************************************************************)
\* longest label vector enumerated with every weight vector
MaxLen == 3

\* largest numClasses of the enumerated inputs
MaxClasses == 3

\* longest label vector enumerated with the weight vectors of one repeated
\* positive weight
MaxUniform == 4

\* largest n of the even distributions (n classes, each once)
MaxEven == 11

\* longest label vector and largest numClasses of the concurrent calls
ConcLen == 2

ConcClasses == 2

\* the weights: 0.0, 1.0, the double nearest 0.1, the largest power of two
\* and the smallest positive double
Tenth == FDiv(One, FromNat(10))

Huge == Pack(FALSE, BShl(<<1>>, Precision - 1), MaxExp)

Tiny == Pack(FALSE, <<1>>, MinExp)

WeightVals == {Zero, One, Tenth, Huge, Tiny}

SeqsOf(S, n) == [1..n -> S]

Range0(n) == [i \in 1..n |-> i - 1]

AllOnes(n) == [i \in 1..n |-> One]

Input(l, nc, w, uw) ==
  [labels |-> l, numClasses |-> nc, weights |-> w, useWeights |-> uw]

\* the calls on the label vector l: in weighted mode with every vector of
\* Len(l) weights from W (and, for no labels at all, with a weight left
\* over); in unweighted mode with no weights or with weights the mode
\* ignores
SmallInputs(l, nc, W) ==
  {Input(l, nc, w, TRUE) : w \in SeqsOf(W, Len(l))}
    \cup {Input(l, nc, <<>>, FALSE), Input(l, nc, AllOnes(Len(l)), FALSE)}
    \cup (IF l = <<>>
          THEN {Input(l, nc, <<One>>, TRUE), Input(l, nc, <<One>>, FALSE)}
          ELSE {})

\* weighted mode, every point of the same positive weight
UniformInputs(l, nc) ==
  {Input(l, nc, [i \in 1..Len(l) |-> w], TRUE) : w \in WeightVals \ {Zero}}

\* n points, n classes, each class once
EvenInputs == {Input(Range0(n), n, <<>>, FALSE) : n \in 1..MaxEven}

\* the weights of the concurrent calls
ConcWeights == {Zero, One, Tenth}

(***************************************************************************)
(* The quotients and logarithms the bounded inputs can ask for, computed   *)
(* once: Frequency and Log2 are FDiv and FLog2.                            *)
(***************************************************************************)
\* the (counts[c], accWeights) pairs a weighted call can hold after at most
\* n iterations of its first loop
RECURSIVE Tallies(_)
Tallies(n) ==
  IF n = 0 THEN {<<Zero, Zero>>}
  ELSE LET S == Tallies(n - 1)
       IN  S \cup {<<FAdd(p[1], w), FAdd(p[2], w)>> : p \in S, w \in WeightVals}
             \cup {<<p[1], FAdd(p[2], w)>> : p \in S, w \in WeightVals}

\* w + ... + w, n times, summed as the loop of line 55 sums it
RECURSIVE Repeated(_, _)
Repeated(w, n) == IF n = 0 THEN Zero ELSE FAdd(Repeated(w, n - 1), w)

MaxN == Max(Max(MaxLen, MaxEven), MaxClasses + 1)

DivArgs ==
  {p \in Tallies(MaxLen) : ~IsZero(p[2])}
    \cup {<<Repeated(w, p[1]), Repeated(w, p[2])>> :
             w \in WeightVals \ {Zero},
             p \in {q \in (0..MaxUniform) \X (1..MaxUniform) : q[1] <= q[2]}}
    \cup {<<FromNat(p[1]), FromNat(p[2])>> :
             p \in {q \in (0..MaxLen) \X (1..MaxLen) : q[1] <= q[2]}}
    \cup {<<FromNat(c), FromNat(n)>> : c \in 0..1, n \in 1..MaxN}

DivTable == [p \in DivArgs |-> FDiv(p[1], p[2])]

LogArgs == ({DivTable[p] : p \in DivArgs} \ {Zero}) \cup {FromNat(n) : n \in 1..MaxN}

LogTable == [f \in LogArgs |-> FLog2(f)]

Frequency(c, a) == IF <<c, a>> \in DivArgs THEN DivTable[<<c, a>>] ELSE FDiv(c, a)

Log2(f) == IF f \in LogArgs THEN LogTable[f] ELSE FLog2(f)

(***************************************************************************)
(* InformationGain::Range                                                  *)
(***************************************************************************)
\* Range with the classes counted one too many
RangeOfOneMore(numClasses) == Log2(FromNat(numClasses + 1))

Range(numClasses) == Log2(FromNat(numClasses))

(***************************************************************************)
(* InformationGain::Evaluate, statement by statement.  A frame holds one   *)
(* call's arguments and locals: buf names the caller's buffers behind the  *)
(* references labels and weights, i is the loop index.  nTally, nFreq and  *)
(* logArgs record what the call has done so far: the loop bodies run at    *)
(* lines 59-60 / 77, the frequencies computed at line 69 / 81, and the     *)
(* arguments passed to std::log2.                                          *)
(***************************************************************************)
NewFrame(b, numClasses, useWeights) ==
  [pc |-> "entry", buf |-> b, numClasses |-> numClasses, useWeights |-> useWeights,
   i |-> 0, counts |-> <<>>, accWeights |-> Zero, gain |-> Zero, ret |-> Zero,
   nTally |-> 0, nFreq |-> 0, logArgs |-> {}]

IdleFrame == [NewFrame(1, 1, FALSE) EXCEPT !.pc = "idle"]

\* CheckEmptyF without the guard of line 40
CheckEmptyNoGuard(f, labels) == [f EXCEPT !.pc = "setup"]

\* lines 40-41
CheckEmptyF(f, labels) ==
  IF Len(labels) = 0
  THEN [f EXCEPT !.ret = Zero, !.pc = "done"]
  ELSE [f EXCEPT !.pc = "setup"]

\* SetupF with counts.ones() for counts.zeros()
SetupOnes(f) ==
  [f EXCEPT !.gain = Zero,
            !.counts = [c \in 1..f.numClasses |-> One],
            !.accWeights = Zero,
            !.i = 0,
            !.pc = IF f.useWeights THEN "tallyW" ELSE "tallyU"]

\* lines 44-53
SetupF(f) ==
  [f EXCEPT !.gain = Zero,
            !.counts = [c \in 1..f.numClasses |-> Zero],
            !.accWeights = Zero,
            !.i = 0,
            !.pc = IF f.useWeights THEN "tallyW" ELSE "tallyU"]

\* TallyWeightedF counting the point instead of adding its weight
TallyWeightedCounting(f, labels, weights) ==
  [f EXCEPT !.counts[labels[f.i + 1] + 1] = FAdd(@, One),
            !.accWeights = FAdd(@, weights[f.i + 1]),
            !.i = @ + 1,
            !.nTally = @ + 1]

\* TallyWeightedF with accWeights = weights[i] for accWeights += weights[i]
TallyWeightedAssign(f, labels, weights) ==
  [f EXCEPT !.counts[labels[f.i + 1] + 1] = FAdd(@, weights[f.i + 1]),
            !.accWeights = weights[f.i + 1],
            !.i = @ + 1,
            !.nTally = @ + 1]

\* lines 55-61, one iteration
TallyWeightedF(f, labels, weights) ==
  [f EXCEPT !.counts[labels[f.i + 1] + 1] = FAdd(@, weights[f.i + 1]),
            !.accWeights = FAdd(@, weights[f.i + 1]),
            !.i = @ + 1,
            !.nTally = @ + 1]

\* CheckZeroWeightF without the guard of line 64
CheckZeroWeightNoGuard(f) == [f EXCEPT !.i = 0, !.pc = "freqW"]

\* lines 64-65, and the entry to the loop of line 67
CheckZeroWeightF(f) ==
  IF IsZero(f.accWeights)
  THEN [f EXCEPT !.ret = Zero, !.pc = "done"]
  ELSE [f EXCEPT !.i = 0, !.pc = "freqW"]

\* AddTerm without the guard f > 0.0
AddTermNoGuard(f, freq) ==
  [f EXCEPT !.gain = FAdd(@, FMul(freq, Log2(freq))),
            !.logArgs = @ \cup {freq},
            !.i = @ + 1,
            !.nFreq = @ + 1]

\* lines 69-71 / 81-83: one class's term, given its frequency
AddTerm(f, freq) ==
  IF FLess(Zero, freq)
  THEN [f EXCEPT !.gain = FAdd(@, FMul(freq, Log2(freq))),
                 !.logArgs = @ \cup {freq},
                 !.i = @ + 1,
                 !.nFreq = @ + 1]
  ELSE [f EXCEPT !.i = @ + 1, !.nFreq = @ + 1]

\* lines 67-72, one iteration
FreqWeightedF(f) == AddTerm(f, Frequency(f.counts[f.i + 1], f.accWeights))

\* lines 76-77, one iteration
TallyUnweightedF(f, labels) ==
  [f EXCEPT !.counts[labels[f.i + 1] + 1] = FAdd(@, One),
            !.i = @ + 1,
            !.nTally = @ + 1]

\* the entry to the loop of line 79
EndTallyF(f) == [f EXCEPT !.i = 0, !.pc = "freqU"]

\* FreqUnweightedF taking the count for the frequency
FreqUnweightedNoDivide(f, labels) == AddTerm(f, f.counts[f.i + 1])

\* FreqUnweightedF dividing by numClasses for labels.n_elem
FreqUnweightedOverClasses(f, labels) ==
  AddTerm(f, Frequency(f.counts[f.i + 1], FromNat(f.numClasses)))

\* lines 79-84, one iteration
FreqUnweightedF(f, labels) ==
  AddTerm(f, Frequency(f.counts[f.i + 1], FromNat(Len(labels))))

\* line 87
ReturnGainF(f) == [f EXCEPT !.ret = f.gain, !.pc = "done"]

\* the next statement of a call that has not returned
StepF(f, labels, weights) ==
  CASE f.pc = "entry"  -> CheckEmptyF(f, labels)
    [] f.pc = "setup"  -> SetupF(f)
    [] f.pc = "tallyW" -> IF f.i < Len(labels)
                          THEN TallyWeightedF(f, labels, weights)
                          ELSE CheckZeroWeightF(f)
    [] f.pc = "freqW"  -> IF f.i < f.numClasses THEN FreqWeightedF(f)
                          ELSE ReturnGainF(f)
    [] f.pc = "tallyU" -> IF f.i < Len(labels)
                          THEN TallyUnweightedF(f, labels)
                          ELSE EndTallyF(f)
    [] f.pc = "freqU"  -> IF f.i < f.numClasses THEN FreqUnweightedF(f, labels)
                          ELSE ReturnGainF(f)

RECURSIVE RunF(_, _, _)
RunF(f, labels, weights) ==
  IF f.pc = "done" THEN f ELSE RunF(StepF(f, labels, weights), labels, weights)

\* Evaluate<UseWeights>(labels, numClasses, weights), run alone
Evaluate(labels, numClasses, weights, useWeights) ==
  RunF(NewFrame(1, numClasses, useWeights), labels, weights).ret

(***************************************************************************)
(* The state: the callers' buffers and one frame per thread.               *)
(***************************************************************************)
Threads == {1, 2}

Bufs == {1, 2}

VARIABLES labelBuf, weightBuf, frame

vars == <<labelBuf, weightBuf, frame>>

Init ==
  /\ labelBuf = [b \in Bufs |-> <<>>]
  /\ weightBuf = [b \in Bufs |-> <<>>]
  /\ frame = [t \in Threads |-> IdleFrame]

\* no call of another thread refers to buffer b
BufFree(b, t) == \A u \in Threads \ {t} : frame[u].pc = "idle" \/ frame[u].buf # b

\* A caller invokes Evaluate on buffer b with the input in: it has filled
\* the buffer, or shares it as it is with the calls that refer to it.
Call(t, b, in) ==
  /\ \/ BufFree(b, t)
     \/ in.labels = labelBuf[b] /\ in.weights = weightBuf[b]
  /\ labelBuf' = [labelBuf EXCEPT ![b] = in.labels]
  /\ weightBuf' = [weightBuf EXCEPT ![b] = in.weights]
  /\ frame' = [frame EXCEPT ![t] = NewFrame(b, in.numClasses, in.useWeights)]

\* a call on some label vector of at most maxLen labels of at most
\* maxClasses classes, with weights from W
CallSmall(t, b, maxLen, maxClasses, W) ==
  /\ frame[t].pc = "idle"
  /\ \E nc \in 1..maxClasses, n \in 0..maxLen :
       \E l \in SeqsOf(0..(nc - 1), n) :
         \E in \in SmallInputs(l, nc, W) : Call(t, b, in)

\* a call with one repeated positive weight
CallUniform(t, b) ==
  /\ frame[t].pc = "idle"
  /\ \E nc \in 1..MaxClasses, n \in 0..MaxUniform :
       \E l \in SeqsOf(0..(nc - 1), n) :
         \E in \in UniformInputs(l, nc) : Call(t, b, in)

\* a call on an even distribution
CallEven(t, b) ==
  /\ frame[t].pc = "idle"
  /\ \E in \in EvenInputs : Call(t, b, in)

Labels(t) == labelBuf[frame[t].buf]

Weights(t) == weightBuf[frame[t].buf]

CheckEmpty(t) ==
  /\ frame[t].pc = "entry"
  /\ frame' = [frame EXCEPT ![t] = CheckEmptyF(@, Labels(t))]
  /\ UNCHANGED <<labelBuf, weightBuf>>

Setup(t) ==
  /\ frame[t].pc = "setup"
  /\ frame' = [frame EXCEPT ![t] = SetupF(@)]
  /\ UNCHANGED <<labelBuf, weightBuf>>

\* TallyWeighted consuming the weight it has read
TallyWeightedInPlace(t) ==
  /\ frame[t].pc = "tallyW"
  /\ frame[t].i < Len(Labels(t))
  /\ frame' = [frame EXCEPT ![t] = TallyWeightedF(@, Labels(t), Weights(t))]
  /\ weightBuf' = [weightBuf EXCEPT ![frame[t].buf][frame[t].i + 1] = Zero]
  /\ UNCHANGED labelBuf

TallyWeighted(t) ==
  /\ frame[t].pc = "tallyW"
  /\ frame[t].i < Len(Labels(t))
  /\ frame' = [frame EXCEPT ![t] = TallyWeightedF(@, Labels(t), Weights(t))]
  /\ UNCHANGED <<labelBuf, weightBuf>>

CheckZeroWeight(t) ==
  /\ frame[t].pc = "tallyW"
  /\ frame[t].i >= Len(Labels(t))
  /\ frame' = [frame EXCEPT ![t] = CheckZeroWeightF(@)]
  /\ UNCHANGED <<labelBuf, weightBuf>>

FreqWeighted(t) ==
  /\ frame[t].pc = "freqW"
  /\ frame[t].i < frame[t].numClasses
  /\ frame' = [frame EXCEPT ![t] = FreqWeightedF(@)]
  /\ UNCHANGED <<labelBuf, weightBuf>>

TallyUnweighted(t) ==
  /\ frame[t].pc = "tallyU"
  /\ frame[t].i < Len(Labels(t))
  /\ frame' = [frame EXCEPT ![t] = TallyUnweightedF(@, Labels(t))]
  /\ UNCHANGED <<labelBuf, weightBuf>>

EndTally(t) ==
  /\ frame[t].pc = "tallyU"
  /\ frame[t].i >= Len(Labels(t))
  /\ frame' = [frame EXCEPT ![t] = EndTallyF(@)]
  /\ UNCHANGED <<labelBuf, weightBuf>>

FreqUnweighted(t) ==
  /\ frame[t].pc = "freqU"
  /\ frame[t].i < frame[t].numClasses
  /\ frame' = [frame EXCEPT ![t] = FreqUnweightedF(@, Labels(t))]
  /\ UNCHANGED <<labelBuf, weightBuf>>

ReturnGain(t) ==
  /\ frame[t].pc \in {"freqW", "freqU"}
  /\ frame[t].i >= frame[t].numClasses
  /\ frame' = [frame EXCEPT ![t] = ReturnGainF(@)]
  /\ UNCHANGED <<labelBuf, weightBuf>>

\* The caller has taken the result; it releases the buffers unless another
\* call still refers to them.
Return(t) ==
  /\ frame[t].pc = "done"
  /\ frame' = [frame EXCEPT ![t] = IdleFrame]
  /\ IF BufFree(frame[t].buf, t)
     THEN /\ labelBuf' = [labelBuf EXCEPT ![frame[t].buf] = <<>>]
          /\ weightBuf' = [weightBuf EXCEPT ![frame[t].buf] = <<>>]
     ELSE UNCHANGED <<labelBuf, weightBuf>>

Step(t) ==
  \/ CheckEmpty(t)
  \/ Setup(t)
  \/ TallyWeighted(t)
  \/ CheckZeroWeight(t)
  \/ FreqWeighted(t)
  \/ TallyUnweighted(t)
  \/ EndTally(t)
  \/ FreqUnweighted(t)
  \/ ReturnGain(t)
  \/ Return(t)

\* one caller, one call at a time, every input of the bounds
Next ==
  \/ CallSmall(1, 1, MaxLen, MaxClasses, WeightVals)
  \/ CallUniform(1, 1)
  \/ CallEven(1, 1)
  \/ Step(1)

Spec == Init /\ [][Next]_vars

\* two threads calling concurrently, on the same buffer or on two
NextConc ==
  \/ \E t \in Threads, b \in Bufs : CallSmall(t, b, ConcLen, ConcClasses, ConcWeights)
  \/ \E t \in Threads : Step(t)

SpecConc == Init /\ [][NextConc]_vars

(***************************************************************************)
(* Vocabulary of the properties                                            *)
(***************************************************************************)
Done(t) == frame[t].pc = "done"

Ret(t) == frame[t].ret

IsWeighted(t) == frame[t].useWeights

NumClasses(t) == frame[t].numClasses

NumLabels(t) == Len(Labels(t))

\* the contract of section 7: labels in [0, numClasses), and in weighted
\* mode one non-negative weight per label
Valid(t) ==
  /\ NumClasses(t) >= 1
  /\ \A i \in 1..NumLabels(t) : Labels(t)[i] \in 0..(NumClasses(t) - 1)
  /\ IsWeighted(t) =>
       /\ Len(Weights(t)) = NumLabels(t)
       /\ \A i \in 1..NumLabels(t) : FLeq(Zero, Weights(t)[i])

\* the classes present among the labels
Present(t) == {Labels(t)[i] : i \in 1..NumLabels(t)}

\* the classes that carry weight: in weighted mode those of a point of
\* positive weight, in unweighted mode those present
Weighty(t) ==
  IF IsWeighted(t)
  THEN {Labels(t)[i] : i \in {j \in 1..NumLabels(t) : FLess(Zero, Weights(t)[j])}}
  ELSE Present(t)

\* every weight is the same positive w
UniformWeights(t) ==
  /\ Len(Weights(t)) = NumLabels(t)
  /\ \A i \in 1..NumLabels(t) : Weights(t)[i] = Weights(t)[1] /\ FLess(Zero, Weights(t)[i])

\* k * w is a double: rounding the product changes nothing
ExactMultiple(k, w) ==
  LET P == BMul(BFromNat(k), w.m)
      r == RoundNearestEven(FALSE, P, w.e, FALSE)
  IN  /\ IsFinite(r)
      /\ IF r.e >= w.e THEN BShl(r.m, r.e - w.e) = P ELSE r.m = BShl(P, w.e - r.e)

\* the weights of the points in I, first to last, summed as the loop of
\* line 55 sums them
RECURSIVE SumOver(_, _, _)
SumOver(w, I, n) ==
  IF n = 0 THEN Zero
  ELSE IF n \in I THEN FAdd(SumOver(w, I, n - 1), w[n])
  ELSE SumOver(w, I, n - 1)

\* the share of class c in the total, as a double: its weight over the
\* total weight, or its count over the number of points
Share(t, c) ==
  LET I == {i \in 1..NumLabels(t) : Labels(t)[i] = c}
  IN  IF IsWeighted(t)
      THEN Frequency(SumOver(Weights(t), I, NumLabels(t)),
                     SumOver(Weights(t), 1..NumLabels(t), NumLabels(t)))
      ELSE Frequency(FromNat(Cardinality(I)), FromNat(NumLabels(t)))

\* the classes whose share is a positive double
PositiveShare(t) == {c \in Present(t) : FLess(Zero, Share(t, c))}

\* |x| <= |y| * (1 + k * 2^-50), computed exactly, for finite x and y
WithinRounding(x, y, k) ==
  IF IsZero(x) THEN TRUE
  ELSE IF IsZero(y) THEN FALSE
  ELSE IF MagLess(x, y) THEN TRUE
  ELSE LET em == Min(x.e, y.e)
       IN  BCmp(BShl(x.m, (x.e - em) + 50),
                BMul(BShl(y.m, y.e - em), BAdd(BShl(<<1>>, 50), BFromNat(k)))) <= 0

\* n classes, each once among n points, unweighted
EvenCall(t) ==
  /\ ~IsWeighted(t)
  /\ NumLabels(t) = NumClasses(t)
  /\ Present(t) = 0..(NumClasses(t) - 1)

IsPowerOfTwo(n) == n >= 1 /\ 2^(Bits(n) - 1) = n

C2_ZeroOnlyWhenPure ==
  \A t \in Threads : Done(t) /\ Valid(t) =>
    /\ IsZero(Ret(t)) => Cardinality(Present(t)) <= 1
    /\ Cardinality(Present(t)) >= 2 => FLess(Ret(t), Zero)

\* C2 amended: for every valid input, in both modes, Evaluate returns a
\* value <= 0; it returns 0 when the labels are empty or at most one class
\* has positive weight (unweighted: exactly when all points share one
\* class), so also for labels of several classes of which only one, or
\* none, has positive weight; and it returns a strictly negative value when
\* two or more classes have a share of the total (class weight / total
\* weight, as a double) that is positive, which fails only when the total
\* overflows or a share underflows to 0.
C2_ZeroWhenOneWeightyClass ==
  \A t \in Threads : Done(t) /\ Valid(t) =>
    /\ FLeq(Ret(t), Zero)
    /\ Cardinality(Weighty(t)) <= 1 => IsZero(Ret(t))
    /\ Cardinality(PositiveShare(t)) >= 2 => FLess(Ret(t), Zero)
    /\ ~IsWeighted(t) => (IsZero(Ret(t)) <=> Cardinality(Present(t)) <= 1)

\* a weighted call on labels of two or more classes, exactly one of which
\* carries weight, has returned 0
C2_Witness ==
  \E t \in Threads :
    /\ Done(t) /\ Valid(t) /\ IsWeighted(t)
    /\ Cardinality(Present(t)) >= 2
    /\ Cardinality(Weighty(t)) = 1
    /\ IsZero(Ret(t))

(***************************************************************************)
(* C3                                                                      *)
(***************************************************************************)
\* C3 as stated: weighted mode with every weight the same positive w
\* returns what unweighted mode returns on the same labels and numClasses.
C3_ScalingInvariance ==
  \A t \in Threads : Done(t) /\ Valid(t) /\ IsWeighted(t) /\ UniformWeights(t) =>
    Ret(t) = Evaluate(Labels(t), NumClasses(t), <<>>, FALSE)

\* C3 amended: weighted mode with every weight the same positive w returns
\* what unweighted mode returns on the same labels and numClasses whenever
\* the sums w, 2w, ..., nw are exact (every k * w, k <= n, is a double, as
\* for w a power of two); other w can differ from it in the last bits.
C3_ScalingInvarianceExactSums ==
  \A t \in Threads :
    ( /\ Done(t) /\ Valid(t) /\ IsWeighted(t) /\ UniformWeights(t)
      /\ \A k \in 1..NumLabels(t) : ExactMultiple(k, Weights(t)[1]) )
    => Ret(t) = Evaluate(Labels(t), NumClasses(t), <<>>, FALSE)

\* a weighted call with every weight 0.1, on labels of two classes, whose
\* sums are exact, has returned a negative value
C3_Witness ==
  \E t \in Threads :
    /\ Done(t) /\ Valid(t) /\ IsWeighted(t) /\ UniformWeights(t)
    /\ NumLabels(t) >= 2
    /\ Weights(t)[1] = Tenth
    /\ \A k \in 1..NumLabels(t) : ExactMultiple(k, Tenth)
    /\ FLess(Ret(t), Zero)

(***************************************************************************)
(* C4                                                                      *)
(***************************************************************************)
\* C4: in weighted mode with n > 0 labels, when the total of the weights is
\* exactly 0 (as it is when every weight is 0) Evaluate returns 0.0 whatever
\* the labels are, without having computed any frequency.
C4_ZeroTotalWeight ==
  \A t \in Threads : Done(t) /\ Valid(t) /\ IsWeighted(t) /\ NumLabels(t) > 0 =>
    /\ (\A i \in 1..NumLabels(t) : IsZero(Weights(t)[i])) => IsZero(frame[t].accWeights)
    /\ IsZero(frame[t].accWeights) =>
         /\ IsZero(Ret(t))
         /\ frame[t].nFreq = 0
         /\ frame[t].logArgs = {}

\* a weighted call on MaxLen labels of several classes, all of weight 0,
\* has returned
C4_Witness ==
  \E t \in Threads :
    /\ Done(t) /\ Valid(t) /\ IsWeighted(t)
    /\ NumLabels(t) = MaxLen
    /\ Cardinality(Present(t)) >= 2
    /\ \A i \in 1..NumLabels(t) : IsZero(Weights(t)[i])
    /\ frame[t].nTally = MaxLen

(***************************************************************************)
(* C5                                                                      *)
(***************************************************************************)
\* C5: for every numClasses >= 1, in both modes and whatever the weights
\* argument is, Evaluate on no labels returns 0.0, and it does so before
\* the per-class counts exist or anything is tallied.
C5_EmptyLabels ==
  \A t \in Threads : Done(t) /\ NumLabels(t) = 0 =>
    /\ IsZero(Ret(t))
    /\ frame[t].counts = <<>>
    /\ frame[t].nTally = 0
    /\ frame[t].nFreq = 0

\* a weighted call with no labels and a weight vector that is not empty,
\* for the largest numClasses, has returned
C5_Witness ==
  \E t \in Threads :
    /\ Done(t) /\ NumLabels(t) = 0
    /\ IsWeighted(t)
    /\ Weights(t) # <<>>
    /\ NumClasses(t) = MaxClasses

(***************************************************************************)
(* C6                                                                      *)
(***************************************************************************)
\* C6: for every non-empty label vector whose elements are all the same
\* class, Evaluate returns 0.0 in both modes, for every numClasses and
\* every vector of non-negative weights.
C6_PureLabels ==
  \A t \in Threads :
    Done(t) /\ Valid(t) /\ NumLabels(t) > 0 /\ Cardinality(Present(t)) = 1 =>
      IsZero(Ret(t))

\* a weighted call on MaxLen points of the last of several classes, with
\* two different positive weights among them, has returned
C6_Witness ==
  \E t \in Threads :
    /\ Done(t) /\ Valid(t) /\ IsWeighted(t)
    /\ NumLabels(t) = MaxLen
    /\ NumClasses(t) > 1
    /\ Present(t) = {NumClasses(t) - 1}
    /\ {One, Tenth} \subseteq {Weights(t)[i] : i \in 1..NumLabels(t)}
    /\ frame[t].nFreq = NumClasses(t)

C8_AbsentClasses ==
  \A t \in Threads : Done(t) /\ Valid(t) =>
    \A k \in 1..(NumClasses(t) + 1) :
      (\A c \in Present(t) : c < k) =>
        Evaluate(Labels(t), k, Weights(t), IsWeighted(t)) = Ret(t)

\* a weighted call on labels of two classes has returned a negative value
\* for a numClasses that counts an absent class
C8_Witness ==
  \E t \in Threads :
    /\ Done(t) /\ Valid(t) /\ IsWeighted(t)
    /\ Cardinality(Present(t)) = 2
    /\ NumClasses(t) - 1 \notin Present(t)
    /\ FLess(Ret(t), Zero)

(***************************************************************************)
(* C9                                                                      *)
(***************************************************************************)
\* C9: when calls of Evaluate run concurrently, in any interleaving of
\* their statements, on the same buffers or on different ones, each
\* statement of a call changes that call's frame only, leaving the label
\* and weight buffers and the other calls' frames as they are, and the
\* statement that returns yields the value Evaluate returns alone on the
\* call's inputs.
C9_Reentrant ==
  [][\A t \in Threads :
       (frame[t].pc \notin {"idle", "done"} /\ frame'[t] # frame[t]) =>
         /\ labelBuf' = labelBuf
         /\ weightBuf' = weightBuf
         /\ \A u \in Threads \ {t} : frame'[u] = frame[u]
         /\ frame'[t].pc = "done" =>
              frame'[t].ret = Evaluate(Labels(t), NumClasses(t), Weights(t),
                                       IsWeighted(t))]_vars

\* two calls are in their loops at once on the same buffer, one weighted
\* and one unweighted, each past its first iteration
C9_Witness ==
  \E t \in Threads, u \in Threads :
    /\ t # u
    /\ frame[t].buf = frame[u].buf
    /\ frame[t].pc = "freqW" /\ frame[t].i > 0
    /\ frame[u].pc = "tallyU" /\ frame[u].i > 0

(***************************************************************************)
(* C10                                                                     *)
(***************************************************************************)
\* C10: in every execution of Evaluate on valid input, in both modes, each
\* iteration of a frequency loop leaves gain finite (never NaN, never an
\* infinity) and has passed to log2 strictly positive finite frequencies
\* only; the iteration for a class whose count is zero leaves gain, and
\* the arguments log2 has seen, as they are.
C10_Log2OfPositiveOnly ==
  [][\A t \in Threads :
       (frame[t].pc \in {"freqW", "freqU"} /\ frame'[t] # frame[t] /\ Valid(t)) =>
         /\ IsFinite(frame'[t].gain)
         /\ \A f \in frame'[t].logArgs : IsFinite(f) /\ FLess(Zero, f)
         /\ ( /\ frame'[t].nFreq = frame[t].nFreq + 1
              /\ IsZero(frame[t].counts[frame[t].i + 1]) )
            => /\ frame'[t].gain = frame[t].gain
               /\ frame'[t].logArgs = frame[t].logArgs]_vars

\* a call has returned a negative value after an iteration for a class of
\* count zero
C10_Witness ==
  \E t \in Threads :
    /\ Done(t) /\ Valid(t)
    /\ frame[t].nFreq = NumClasses(t)
    /\ \E c \in 1..NumClasses(t) : IsZero(frame[t].counts[c])
    /\ FLess(Ret(t), Zero)
=============================================================================
